---- MODULE Spec2Model ----
(***************************************************************************)
(* Model of tasks.py of ee-linux-tools: platform/tool discovery, selection *)
(* validation, the image staleness decision and the build/test task loops. *)
(*                                                                         *)
(* Strings are sequences of one-character strings, so that the regular     *)
(* expressions, split(",") and strip() of the source are modelled by what  *)
(* they do on characters.  A Python value that may be None is a record     *)
(* [none, v].                                                              *)
(***************************************************************************)
EXTENDS Integers, Sequences, FiniteSets, TLC

(***************************************************************************)
(* Bounds of the model.                                                    *)
(***************************************************************************)
MaxFiles == 3
MaxTime == 2
MaxEntries == 3
MaxPlatforms == 2

(***************************************************************************)
(* Python values.                                                          *)
(***************************************************************************)
None == [none |-> TRUE, v |-> <<>>]
Some(x) == [none |-> FALSE, v |-> x]
NoTime == [none |-> TRUE, v |-> 0]

\* truthiness of "str | None": None and "" are both falsy
falsy(s) == s.none \/ s.v = <<>>

IsPrefix(p, s) == Len(p) <= Len(s) /\ SubSeq(s, 1, Len(p)) = p
IsSuffix(x, s) == Len(x) <= Len(s) /\ SubSeq(s, Len(s) - Len(x) + 1, Len(s)) = x

Contains(seq, x) == \E i \in 1..Len(seq) : seq[i] = x

Digit == {"0", "1", "2", "3", "4", "5", "6", "7", "8", "9"}

\* \d+
IsDigits(s) == Len(s) > 0 /\ \A i \in 1..Len(s) : s[i] \in Digit

DigitVal(c) ==
    CASE c = "0" -> 0 [] c = "1" -> 1 [] c = "2" -> 2 [] c = "3" -> 3
      [] c = "4" -> 4 [] c = "5" -> 5 [] c = "6" -> 6 [] c = "7" -> 7
      [] c = "8" -> 8 [] c = "9" -> 9

\* int(match.group(..)) on a string of decimal digits
RECURSIVE int(_)
int(s) ==
    IF Len(s) = 0 THEN 0
    ELSE 10 * int(SubSeq(s, 1, Len(s) - 1)) + DigitVal(s[Len(s)])

\* str.strip(): whitespace removed at both ends
RECURSIVE strip(_)
strip(s) ==
    IF Len(s) = 0 THEN s
    ELSE IF s[1] = " " THEN strip(Tail(s))
    ELSE IF s[Len(s)] = " " THEN strip(SubSeq(s, 1, Len(s) - 1))
    ELSE s

\* str.split(","): the segments between commas, empty segments included
RECURSIVE split(_)
split(s) ==
    IF \A i \in 1..Len(s) : s[i] # ","
    THEN <<s>>
    ELSE LET k == CHOOSE i \in 1..Len(s) :
                      s[i] = "," /\ \A j \in 1..(i - 1) : s[j] # ","
         IN <<SubSeq(s, 1, k - 1)>> \o split(SubSeq(s, k + 1, Len(s)))

\* [t.strip() for t in s.split(",")]
split_strip(s) == LET parts == split(s) IN [i \in 1..Len(parts) |-> strip(parts[i])]

\* [x for x in seq if x not in allowed]
RECURSIVE not_in(_, _)
not_in(seq, allowed) ==
    IF Len(seq) = 0 THEN <<>>
    ELSE (IF Contains(allowed, Head(seq)) THEN <<>> ELSE <<Head(seq)>>)
         \o not_in(Tail(seq), allowed)

(***************************************************************************)
(* File names.                                                             *)
(***************************************************************************)
BUILD_ == <<"b", "u", "i", "l", "d", "_">>
TEST_ == <<"t", "e", "s", "t", "_">>
DOT_SH == <<".", "s", "h">>

NoMatch == [matched |-> FALSE, tool |-> <<>>, order |-> 0]

\* re.compile(rf"^{re.escape(script_prefix)}(.+)\.(\d+)\.sh$").match(name):
\* the greedy (.+) leaves the last ".<digits>" before ".sh" to group 2
tool_pattern_match(script_prefix, name) ==
    IF ~(Len(name) >= Len(script_prefix) + Len(DOT_SH)
         /\ IsPrefix(script_prefix, name) /\ IsSuffix(DOT_SH, name))
    THEN NoMatch
    ELSE LET mid == SubSeq(name, Len(script_prefix) + 1, Len(name) - Len(DOT_SH))
             cuts == {i \in 2..Len(mid) :
                         mid[i] = "." /\ IsDigits(SubSeq(mid, i + 1, Len(mid)))}
         IN IF cuts = {} THEN NoMatch
            ELSE LET k == CHOOSE i \in cuts : \A j \in cuts : j <= i
                 IN [matched |-> TRUE,
                     tool |-> SubSeq(mid, 1, k - 1),
                     order |-> int(SubSeq(mid, k + 1, Len(mid)))]

NoOrder == [matched |-> FALSE, order |-> 0]

\* script_pattern_match with (\d) for (\d+)
script_pattern_match_one_digit(script_prefix, tool_name, name) ==
    LET head == script_prefix \o tool_name \o <<".">>
    IN IF ~(Len(name) >= Len(head) + Len(DOT_SH)
            /\ IsPrefix(head, name) /\ IsSuffix(DOT_SH, name))
       THEN NoOrder
       ELSE LET digits == SubSeq(name, Len(head) + 1, Len(name) - Len(DOT_SH))
            IN IF IsDigits(digits) /\ Len(digits) = 1
               THEN [matched |-> TRUE, order |-> int(digits)]
               ELSE NoOrder

\* re.compile(rf"^{re.escape(script_prefix)}{re.escape(tool_name)}\.(\d+)\.sh$").match(name)
script_pattern_match(script_prefix, tool_name, name) ==
    LET head == script_prefix \o tool_name \o <<".">>
    IN IF ~(Len(name) >= Len(head) + Len(DOT_SH)
            /\ IsPrefix(head, name) /\ IsSuffix(DOT_SH, name))
       THEN NoOrder
       ELSE LET digits == SubSeq(name, Len(head) + 1, Len(name) - Len(DOT_SH))
            IN IF IsDigits(digits)
               THEN [matched |-> TRUE, order |-> int(digits)]
               ELSE NoOrder

\* sorted(items, key=lambda x: x.order): Python's sort is stable
RECURSIVE insert_sorted(_, _)
insert_sorted(sorted, x) ==
    IF Len(sorted) = 0 THEN <<x>>
    ELSE IF sorted[Len(sorted)].order <= x.order THEN Append(sorted, x)
    ELSE Append(insert_sorted(SubSeq(sorted, 1, Len(sorted) - 1), x),
                sorted[Len(sorted)])

RECURSIVE sorted_by_order(_)
sorted_by_order(items) ==
    IF Len(items) = 0 THEN <<>>
    ELSE insert_sorted(sorted_by_order(SubSeq(items, 1, Len(items) - 1)),
                       items[Len(items)])

(***************************************************************************)
(* A platform directory is NoDir (absent) or the sequence of its entries   *)
(* in the order iterdir() yields them.                                     *)
(***************************************************************************)
NoDir == [exists |-> FALSE, entries |-> <<>>]
Dir(entries) == [exists |-> TRUE, entries |-> entries]

\* tool_order_map_put without the "order_num < tool_order_map[tool_name]" test
tool_order_map_put_last(map, tool_name, order_num) ==
    IF \E i \in 1..Len(map) : map[i].tool = tool_name
    THEN [i \in 1..Len(map) |->
            IF map[i].tool = tool_name
            THEN [tool |-> tool_name, order |-> order_num]
            ELSE map[i]]
    ELSE Append(map, [tool |-> tool_name, order |-> order_num])

\* the loop body of get_tools_for_platform: tool_order_map as the sequence of
\* its items in insertion order (a dict keeps the position of an updated key)
tool_order_map_put(map, tool_name, order_num) ==
    IF \E i \in 1..Len(map) : map[i].tool = tool_name
    THEN [i \in 1..Len(map) |->
            IF map[i].tool = tool_name /\ order_num < map[i].order
            THEN [tool |-> tool_name, order |-> order_num]
            ELSE map[i]]
    ELSE Append(map, [tool |-> tool_name, order |-> order_num])

RECURSIVE tool_order_map(_, _)
tool_order_map(entries, script_prefix) ==
    IF Len(entries) = 0 THEN <<>>
    ELSE LET map == tool_order_map(SubSeq(entries, 1, Len(entries) - 1), script_prefix)
             m == tool_pattern_match(script_prefix, entries[Len(entries)])
         IN IF m.matched THEN tool_order_map_put(map, m.tool, m.order) ELSE map

get_tools_for_platform(dir, script_prefix) ==
    IF ~dir.exists THEN <<>>
    ELSE LET sorted_tools == sorted_by_order(tool_order_map(dir.entries, script_prefix))
         IN [i \in 1..Len(sorted_tools) |-> sorted_tools[i].tool]

RECURSIVE matching_scripts(_, _, _)
matching_scripts(entries, script_prefix, tool_name) ==
    IF Len(entries) = 0 THEN <<>>
    ELSE LET m == script_pattern_match(script_prefix, tool_name, Head(entries))
         IN (IF m.matched THEN <<[name |-> Head(entries), order |-> m.order]>> ELSE <<>>)
            \o matching_scripts(Tail(entries), script_prefix, tool_name)

\* get_script_path_for_tool without the sort of matching_scripts
get_script_path_for_tool_unsorted(dir, script_prefix, tool_name) ==
    IF ~dir.exists THEN None
    ELSE LET scripts == matching_scripts(dir.entries, script_prefix, tool_name)
         IN IF Len(scripts) = 0 THEN None
            ELSE Some(scripts[1].name)

get_script_path_for_tool(dir, script_prefix, tool_name) ==
    IF ~dir.exists THEN None
    ELSE LET scripts == matching_scripts(dir.entries, script_prefix, tool_name)
         IN IF Len(scripts) = 0 THEN None
            ELSE Some(sorted_by_order(scripts)[1].name)

\* [x for x in seq if x in allowed]
RECURSIVE only_in(_, _)
only_in(seq, allowed) ==
    IF Len(seq) = 0 THEN <<>>
    ELSE (IF Contains(allowed, Head(seq)) THEN <<Head(seq)>> ELSE <<>>)
         \o only_in(Tail(seq), allowed)

\* validate_tools dropping the invalid names instead of rejecting the list
validate_tools_partial(tools_str, dir, script_prefix) ==
    LET available_tools == get_tools_for_platform(dir, script_prefix)
    IN IF Len(available_tools) = 0 THEN Some(<<>>)
       ELSE IF falsy(tools_str) THEN Some(available_tools)
       ELSE Some(only_in(split_strip(tools_str.v), available_tools))

\* validate_tools: None is the validation error (the invalid and the
\* available names are printed), a list is the accepted tool list
validate_tools(tools_str, dir, script_prefix) ==
    LET available_tools == get_tools_for_platform(dir, script_prefix)
    IN IF Len(available_tools) = 0 THEN Some(<<>>)
       ELSE IF falsy(tools_str) THEN Some(available_tools)
       ELSE LET tools == split_strip(tools_str.v)
                invalid_tools == not_in(tools, available_tools)
            IN IF Len(invalid_tools) > 0 THEN None ELSE Some(tools)

\* what validate_tools prints on its error branch
validate_tools_error(tools_str, dir, script_prefix) ==
    LET available_tools == get_tools_for_platform(dir, script_prefix)
    IN [invalid |-> not_in(split_strip(tools_str.v), available_tools),
        available |-> available_tools]

\* get_available_platforms: a catalog is the root directory, whose entries
\* are the names of its subdirectories in iterdir() order
get_available_platforms(root) == IF ~root.exists THEN <<>> ELSE root.entries

\* validate_platforms dropping the invalid platforms of the request
validate_platforms_partial(platforms_str, root) ==
    IF falsy(platforms_str) THEN Some(<<>>)
    ELSE LET available_platforms == get_available_platforms(root)
         IN IF Len(available_platforms) = 0 THEN None
            ELSE Some(only_in(split_strip(platforms_str.v), available_platforms))

\* validate_platforms without the invalid_platforms test
validate_platforms_unchecked(platforms_str, root) ==
    IF falsy(platforms_str) THEN Some(<<>>)
    ELSE LET available_platforms == get_available_platforms(root)
         IN IF Len(available_platforms) = 0 THEN None
            ELSE Some(split_strip(platforms_str.v))

validate_platforms(platforms_str, root) ==
    IF falsy(platforms_str) THEN Some(<<>>)
    ELSE LET available_platforms == get_available_platforms(root)
         IN IF Len(available_platforms) = 0 THEN None
            ELSE LET platforms == split_strip(platforms_str.v)
                     invalid_platforms == not_in(platforms, available_platforms)
                 IN IF Len(invalid_platforms) > 0 THEN None ELSE Some(platforms)

\* what validate_platforms prints on its two error branches
validate_platforms_error(platforms_str, root) ==
    LET available_platforms == get_available_platforms(root)
    IN IF Len(available_platforms) = 0
       THEN [message |-> "No platform directories found in", base_dir |-> root,
             invalid |-> <<>>, available |-> <<>>]
       ELSE [message |-> "Invalid platforms", base_dir |-> root,
             invalid |-> not_in(split_strip(platforms_str.v), available_platforms),
             available |-> available_platforms]

\* select_platforms walking the catalog for the platforms of the request
select_platforms_catalog_order(platform, root) ==
    IF falsy(platform)
    THEN LET platform_list == get_available_platforms(root)
         IN IF Len(platform_list) = 0 THEN None ELSE Some(platform_list)
    ELSE LET validated == validate_platforms(platform, root)
         IN IF validated.none THEN None
            ELSE Some(only_in(get_available_platforms(root), validated.v))

\* lines 397-409 of build (501-512 of test): the platform list of a run;
\* None when the task returns before its platform loop
select_platforms(platform, root) ==
    IF falsy(platform)
    THEN LET platform_list == get_available_platforms(root)
         IN IF Len(platform_list) = 0 THEN None ELSE Some(platform_list)
    ELSE validate_platforms(platform, root)

(***************************************************************************)
(* Image staleness.                                                        *)
(***************************************************************************)
\* the Result of "docker image inspect" under warn=True
InspectOk(created) == [ok |-> TRUE, created |-> created, why |-> "ok"]
InspectNotFound == [ok |-> FALSE, created |-> 0, why |-> "no such image"]
InspectDaemonDown == [ok |-> FALSE, created |-> 0, why |-> "daemon unreachable"]

\* c.run returns a Result here, so the "Internal Error" of a None result is
\* not raised
get_docker_image_creation_time(result) ==
    IF result.ok THEN [none |-> FALSE, v |-> result.created] ELSE NoTime

\* dockerfile: the file's mtime, or NoTime when the file does not exist
get_file_modification_time(file) == file

\* should_rebuild_docker_image with ">=" for ">"
should_rebuild_docker_image_ge(result, dockerfile, force) ==
    IF force THEN "True"
    ELSE IF dockerfile.none THEN "False"
    ELSE LET image_time == get_docker_image_creation_time(result)
         IN IF image_time.none THEN "True"
            ELSE LET dockerfile_time == get_file_modification_time(dockerfile)
                 IN IF dockerfile_time.none THEN "raise"
                    ELSE IF dockerfile_time.v >= image_time.v THEN "True"
                    ELSE "False"

\* "True", "False" or "raise"
should_rebuild_docker_image(result, dockerfile, force) ==
    IF force THEN "True"
    ELSE IF dockerfile.none THEN "False"
    ELSE LET image_time == get_docker_image_creation_time(result)
         IN IF image_time.none THEN "True"
            ELSE LET dockerfile_time == get_file_modification_time(dockerfile)
                 IN IF dockerfile_time.none THEN "raise"
                    ELSE IF dockerfile_time.v > image_time.v THEN "True"
                    ELSE "False"

(***************************************************************************)
(* Names used by the bounded inputs.                                       *)
(***************************************************************************)
GLIBC227 == <<"G", "L", "I", "B", "C", "2", "2", "7">>
EL7 == <<"E", "L", "7">>
SUSE == <<"S", "U", "S", "E">>

neovim == <<"n", "e", "o", "v", "i", "m">>
treesitter == <<"t", "r", "e", "e", "s", "i", "t", "t", "e", "r">>
ghost == <<"g", "h", "o", "s", "t">>

script(script_prefix, tool, digits) == script_prefix \o tool \o <<".">> \o digits \o DOT_SH

\* entries a platform directory may hold
FileNames ==
    { script(BUILD_, <<"a">>, <<"1">>),
      script(BUILD_, <<"a">>, <<"2">>),
      script(BUILD_, <<"a">>, <<"0", "1">>),
      script(BUILD_, <<"b">>, <<"1">>),
      script(BUILD_, <<"b">>, <<"0">>),
      script(BUILD_, <<"c">>, <<"1", "0">>),
      script(BUILD_, <<"a", ".", "1">>, <<"2">>),
      script(TEST_, <<"a">>, <<"0">>),
      script(TEST_, <<"b">>, <<"3">>),
      BUILD_ \o <<"a">> \o DOT_SH }

ToolNames == { <<"a">>, <<"b">>, <<"c">>, <<"a", ".", "1">>, <<"z">> }

ToolRequests ==
    { None, Some(<<>>),
      Some(<<"a">>), Some(<<"b", ",", "a">>), Some(<<"a", ",", " ", "b">>),
      Some(<<"a", ",", "z">>), Some(<<"z">>), Some(<<"a", ".", "1", ",", "c">>),
      Some(<<"a", ",", "a">>), Some(<<"a", ",">>) }

PlatformRequests ==
    { None, Some(<<>>),
      Some(GLIBC227), Some(EL7 \o <<",">> \o GLIBC227),
      Some(GLIBC227 \o <<",", " ">> \o EL7),
      Some(SUSE \o <<",">> \o EL7), Some(SUSE) }

RECURSIVE SeqsOver(_, _)
SeqsOver(S, n) ==
    IF n = 0 THEN {<<>>}
    ELSE LET shorter == SeqsOver(S, n - 1)
         IN shorter \cup {Append(q, x) : q \in {r \in shorter : Len(r) = n - 1}, x \in S}

SeqSet(q) == {q[i] : i \in 1..Len(q)}

NoRepeat(q) == \A i, j \in 1..Len(q) : i # j => q[i] # q[j]

Dirs == {NoDir} \cup {Dir(q) : q \in {r \in SeqsOver(FileNames, MaxFiles) : NoRepeat(r)}}

Roots == {NoDir} \cup {Dir(q) : q \in {r \in SeqsOver({GLIBC227, EL7}, 2) : NoRepeat(r)}}

Times == 0..MaxTime

InspectResults == {InspectNotFound, InspectDaemonDown} \cup {InspectOk(t) : t \in Times}

FileTimes == {NoTime} \cup {[none |-> FALSE, v |-> t] : t \in Times}

(***************************************************************************)
(* State.                                                                  *)
(***************************************************************************)
VARIABLES
    dir,            \* a platform directory, the input of the tool functions
    root,           \* a root directory, the input of the platform functions
    docker,         \* [dockerfile, result]: the inputs of the staleness decision
    call,           \* the function applied and its arguments
    ret,            \* what the call returned
    dist,           \* a distribution tree: [exists, entries, wrappers]
    fs,             \* the root of the task: [root, dirs, dockerfile, post_image_build]
    images,         \* the image store: image name -> creation time, or NoTime
    task,           \* the invocation: [name, tools, platform, force_image_rebuild]
    pc,             \* where the task is
    platform_list,  \* the platforms of the run
    pidx,           \* index in platform_list of the platform being processed
    tool_list,      \* the validated tools of that platform
    tidx,           \* index in tool_list of the tool being processed
    log             \* the commands run and the errors reported, in order

fnvars == <<dir, root, docker, call, ret, dist>>
runvars == <<fs, images, task, pc, platform_list, pidx, tool_list, tidx, log>>
vars == <<fnvars, runvars>>

NoCall == [op |-> "none"]
NoDocker == [dockerfile |-> NoTime, result |-> InspectNotFound]
NoDist == [exists |-> FALSE, entries |-> <<>>, wrappers |-> {}]

(***************************************************************************)
(* SpecFn: one of the functions of tasks.py applied once to bounded        *)
(* inputs.                                                                 *)
(***************************************************************************)
\* no task is running
NoTask ==
    /\ fs = [root |-> NoDir]
    /\ images = <<>>
    /\ task = [name |-> "none"]
    /\ pc = "idle"
    /\ platform_list = <<>>
    /\ pidx = 0
    /\ tool_list = <<>>
    /\ tidx = 0
    /\ log = <<>>

InitFn ==
    /\ NoTask
    /\ call = NoCall
    /\ ret = None
    /\ dist = NoDist
    /\ \/ dir \in Dirs /\ root = NoDir /\ docker = NoDocker
       \/ dir = NoDir /\ root \in Roots /\ docker = NoDocker
       \/ dir = NoDir /\ root = NoDir
          /\ docker \in [dockerfile : FileTimes, result : InspectResults]

Call_get_tools_for_platform ==
    /\ call = NoCall
    /\ \E script_prefix \in {BUILD_, TEST_} :
          /\ call' = [op |-> "get_tools_for_platform", script_prefix |-> script_prefix]
          /\ ret' = get_tools_for_platform(dir, script_prefix)
    /\ UNCHANGED <<dir, root, docker, dist, runvars>>

Call_get_script_path_for_tool ==
    /\ call = NoCall
    /\ \E script_prefix \in {BUILD_, TEST_}, tool_name \in ToolNames :
          /\ call' = [op |-> "get_script_path_for_tool",
                      script_prefix |-> script_prefix, tool_name |-> tool_name]
          /\ ret' = get_script_path_for_tool(dir, script_prefix, tool_name)
    /\ UNCHANGED <<dir, root, docker, dist, runvars>>

Call_validate_tools ==
    /\ call = NoCall
    /\ \E script_prefix \in {BUILD_, TEST_}, tools_str \in ToolRequests :
          /\ ret' = validate_tools(tools_str, dir, script_prefix)
          /\ call' = [op |-> "validate_tools",
                      script_prefix |-> script_prefix, tools_str |-> tools_str,
                      printed |-> IF ret'.none
                                  THEN validate_tools_error(tools_str, dir, script_prefix)
                                  ELSE [invalid |-> <<>>, available |-> <<>>]]
    /\ UNCHANGED <<dir, root, docker, dist, runvars>>

Call_validate_platforms ==
    /\ call = NoCall
    /\ \E platforms_str \in PlatformRequests :
          /\ ret' = validate_platforms(platforms_str, root)
          /\ call' = [op |-> "validate_platforms", platforms_str |-> platforms_str,
                      printed |-> IF ret'.none
                                  THEN validate_platforms_error(platforms_str, root)
                                  ELSE [message |-> "", base_dir |-> root,
                                        invalid |-> <<>>, available |-> <<>>]]
    /\ UNCHANGED <<dir, root, docker, dist, runvars>>

Call_select_platforms ==
    /\ call = NoCall
    /\ \E platform \in PlatformRequests :
          /\ call' = [op |-> "select_platforms", platform |-> platform]
          /\ ret' = select_platforms(platform, root)
    /\ UNCHANGED <<dir, root, docker, dist, runvars>>

Call_should_rebuild_docker_image ==
    /\ call = NoCall
    /\ \E force \in BOOLEAN :
          /\ call' = [op |-> "should_rebuild_docker_image", force |-> force]
          /\ ret' = should_rebuild_docker_image(docker.result, docker.dockerfile, force)
    /\ UNCHANGED <<dir, root, docker, dist, runvars>>

NextFn ==
    \/ Call_get_tools_for_platform
    \/ Call_get_script_path_for_tool
    \/ Call_validate_tools
    \/ Call_validate_platforms
    \/ Call_select_platforms
    \/ Call_should_rebuild_docker_image

SpecFn == InitFn /\ [][NextFn]_vars

(***************************************************************************)
(* Spec: one invocation of the build or the test task (the two functions   *)
(* are the same code but for the script prefix, the image prefix, the      *)
(* mounts and the dependency collection of build).                         *)
(***************************************************************************)
BUILDER == <<"b", "u", "i", "l", "d", "e", "r">>
TESTER == <<"t", "e", "s", "t", "e", "r">>

\* str.lower(), on the letters of the platform names
lower_char(c) ==
    CASE c = "G" -> "g" [] c = "L" -> "l" [] c = "I" -> "i" [] c = "B" -> "b"
      [] c = "C" -> "c" [] c = "E" -> "e" [] c = "S" -> "s" [] c = "U" -> "u"
      [] OTHER -> c

lower(str) == [i \in 1..Len(str) |-> lower_char(str[i])]

\* image_name = f"{image_prefix}-{platform.lower()}"
image_name_of(image_prefix, platform) == image_prefix \o <<"-">> \o lower(platform)

script_prefix_of(name) == IF name = "build" THEN BUILD_ ELSE TEST_
image_prefix_of(name) == IF name \in {"build", "debug_build"} THEN BUILDER ELSE TESTER

Platforms == {GLIBC227, EL7}

\* the platform directories a root may hold
RunDirs ==
    { Dir(<<script(BUILD_, neovim, <<"1">>), script(BUILD_, treesitter, <<"0">>),
            script(TEST_, neovim, <<"0">>)>>),
      Dir(<<script(BUILD_, treesitter, <<"2">>), script(TEST_, treesitter, <<"1">>),
            script(TEST_, neovim, <<"2">>)>>),
      Dir(<<>>) }

\* Dockerfile, image and post_image_build.sh of a platform
RunImages ==
    { [dockerfile |-> Some(1), image |-> NoTime, post |-> TRUE],
      [dockerfile |-> Some(1), image |-> Some(1), post |-> TRUE],
      [dockerfile |-> Some(1), image |-> Some(0), post |-> FALSE],
      [dockerfile |-> NoTime, image |-> Some(1), post |-> FALSE],
      [dockerfile |-> NoTime, image |-> NoTime, post |-> FALSE] }

RunRoots == {NoDir, Dir(<<GLIBC227, EL7>>), Dir(<<EL7, GLIBC227>>)}

RunTools == {None, Some(neovim \o <<",">> \o treesitter), Some(ghost)}

RunPlatforms ==
    { None, Some(GLIBC227), Some(EL7 \o <<",", " ">> \o GLIBC227),
      Some(SUSE \o <<",">> \o EL7) }

\* the volumes of each "docker run"
MountsOfCacheDirs == {"build-cache:/cache"}
MountsOfPostImageBuild == {"build-cache:/cache", "platform_dir:/workspace"}
MountsOfBuild ==
    {"build-cache:/cache", "tool_repos:/tool_repos", "deploy:/deploy",
     "platform_dir:/workspace"}
\* MountsOfCollect with the volume of the build step before it
MountsOfCollect_cached ==
    {"build-cache:/cache", "deploy:/deploy", "platform_dir:/workspace"}

MountsOfCollect == {"deploy:/deploy", "platform_dir:/workspace"}
MountsOfTest ==
    {"tool_repos:/tool_repos", "deploy:/deploy", "platform_dir:/workspace",
     "dist/latest:/dist"}

Init ==
    /\ dir = NoDir /\ root = NoDir /\ docker = NoDocker /\ call = NoCall /\ ret = None
    /\ dist = NoDist
    /\ \E r \in RunRoots, d \in [Platforms -> RunDirs], i \in [Platforms -> RunImages] :
          /\ fs = [root |-> r, dirs |-> d,
                   dockerfile |-> [p \in Platforms |-> i[p].dockerfile],
                   post_image_build |-> [p \in Platforms |-> i[p].post]]
          /\ \E name \in {"build", "test"} :
                /\ images = [n \in {image_name_of(image_prefix_of(name), p) : p \in Platforms}
                               |-> LET p == CHOOSE q \in Platforms :
                                               image_name_of(image_prefix_of(name), q) = n
                                   IN i[p].image]
                /\ task \in [name : {name}, tools : RunTools, platform : RunPlatforms,
                             force_image_rebuild : BOOLEAN]
    /\ pc = "start"
    /\ platform_list = <<>>
    /\ pidx = 0
    /\ tool_list = <<>>
    /\ tidx = 0
    /\ log = <<>>

platform == platform_list[pidx]
platform_dir == fs.dirs[platform]
image_name == image_name_of(image_prefix_of(task.name), platform)
tool == tool_list[tidx]

Event(kind, tool_name, script_name, mounts, ok) ==
    [kind |-> kind, platform |-> platform, tool |-> tool_name, script |-> script_name,
     mounts |-> mounts, ok |-> ok]

\* a message printed outside the platform loop
Message(kind) ==
    [kind |-> kind, platform |-> <<>>, tool |-> <<>>, script |-> <<>>,
     mounts |-> {}, ok |-> FALSE]

\* c.run without warn=True raises UnexpectedExit on a non-zero exit: the
\* exception is caught nowhere and ends the task
Raise == pc' = "raised"

\* the result of "docker image inspect": of the image store, or a failure of
\* the docker command itself
InspectOutcomes ==
    {InspectDaemonDown} \cup
    (IF images[image_name].none THEN {InspectNotFound}
     ELSE {InspectOk(images[image_name].v)})

\* build, lines 397-409 (test, 501-512): the platforms of the run; the
\* task returns after the error message when there are none
SelectPlatforms ==
    /\ pc = "start"
    /\ LET selected == select_platforms(task.platform, fs.root)
       IN IF selected.none
          THEN /\ pc' = "done"
               /\ log' = Append(log, Message(IF falsy(task.platform)
                                             THEN "No platform directories found"
                                             ELSE validate_platforms_error(task.platform,
                                                                           fs.root).message))
               /\ UNCHANGED <<platform_list, pidx>>
          ELSE /\ platform_list' = selected.v
               /\ pidx' = 1
               /\ pc' = "platform"
               /\ UNCHANGED log
    /\ UNCHANGED <<fnvars, fs, images, task, tool_list, tidx>>

\* ValidateTools without the skip of a platform that has no tools
ValidateTools_no_skip ==
    /\ pc = "platform"
    /\ IF pidx > Len(platform_list)
       THEN /\ pc' = "done"
            /\ UNCHANGED <<pidx, tool_list, tidx, log>>
       ELSE LET validated == validate_tools(task.tools, platform_dir,
                                            script_prefix_of(task.name))
            IN IF validated.none
               THEN /\ log' = Append(log, Event("invalid tools", <<>>, <<>>, {}, FALSE))
                    /\ pidx' = pidx + 1
                    /\ UNCHANGED <<pc, tool_list, tidx>>
               ELSE /\ tool_list' = validated.v
                    /\ tidx' = 1
                    /\ pc' = "image check"
                    /\ UNCHANGED <<pidx, log>>
    /\ UNCHANGED <<fnvars, fs, images, task, platform_list>>

\* ValidateTools with "return" for "continue" after a validation error
ValidateTools_return ==
    /\ pc = "platform"
    /\ IF pidx > Len(platform_list)
       THEN /\ pc' = "done"
            /\ UNCHANGED <<pidx, tool_list, tidx, log>>
       ELSE LET validated == validate_tools(task.tools, platform_dir,
                                            script_prefix_of(task.name))
            IN IF validated.none
               THEN /\ log' = Append(log, Event("invalid tools", <<>>, <<>>, {}, FALSE))
                    /\ pc' = "done"
                    /\ UNCHANGED <<pidx, tool_list, tidx>>
               ELSE IF Len(validated.v) = 0
               THEN /\ log' = Append(log, Event("no scripts", <<>>, <<>>, {}, FALSE))
                    /\ pidx' = pidx + 1
                    /\ UNCHANGED <<pc, tool_list, tidx>>
               ELSE /\ tool_list' = validated.v
                    /\ tidx' = 1
                    /\ pc' = "image check"
                    /\ UNCHANGED <<pidx, log>>
    /\ UNCHANGED <<fnvars, fs, images, task, platform_list>>

\* build, lines 412-427: the head of the platform loop and validate_tools
ValidateTools ==
    /\ pc = "platform"
    /\ IF pidx > Len(platform_list)
       THEN /\ pc' = "done"
            /\ UNCHANGED <<pidx, tool_list, tidx, log>>
       ELSE LET validated == validate_tools(task.tools, platform_dir,
                                            script_prefix_of(task.name))
            IN IF validated.none
               THEN /\ log' = Append(log, Event("invalid tools", <<>>, <<>>, {}, FALSE))
                    /\ pidx' = pidx + 1
                    /\ UNCHANGED <<pc, tool_list, tidx>>
               ELSE IF Len(validated.v) = 0
               THEN /\ log' = Append(log, Event("no scripts", <<>>, <<>>, {}, FALSE))
                    /\ pidx' = pidx + 1
                    /\ UNCHANGED <<pc, tool_list, tidx>>
               ELSE /\ tool_list' = validated.v
                    /\ tidx' = 1
                    /\ pc' = "image check"
                    /\ UNCHANGED <<pidx, log>>
    /\ UNCHANGED <<fnvars, fs, images, task, platform_list>>

\* build_docker_image_for_platform, line 295: should_rebuild_docker_image
ImageCheck ==
    /\ pc = "image check"
    /\ \E result \in InspectOutcomes :
          LET rebuild == should_rebuild_docker_image(result, fs.dockerfile[platform],
                                                     task.force_image_rebuild)
          IN /\ pc' = CASE rebuild = "True" -> "image build"
                        [] rebuild = "False" -> "tool"
                        [] OTHER -> "raised"
             /\ log' = LET checked == Append(log, Event("image check", <<>>, <<>>, {},
                                                        rebuild # "raise"))
                       IN IF fs.dockerfile[platform].none /\ ~task.force_image_rebuild
                          THEN Append(checked, Event("Dockerfile not found", <<>>, <<>>,
                                                     {}, FALSE))
                          ELSE checked
    /\ UNCHANGED <<fnvars, fs, images, task, platform_list, pidx, tool_list, tidx>>

\* build_docker_image_for_platform, lines 298-303: "docker build", which
\* cannot succeed without the Dockerfile; the image built is the newest
ImageBuild ==
    /\ pc = "image build"
    /\ \E ok \in (IF fs.dockerfile[platform].none THEN {FALSE} ELSE BOOLEAN) :
          /\ log' = Append(log, Event("docker build", <<>>, <<>>, {}, ok))
          /\ IF ok
             THEN /\ images' = [images EXCEPT ![image_name] = Some(MaxTime)]
                  /\ pc' = "cache dirs"
             ELSE /\ Raise
                  /\ UNCHANGED images
    /\ UNCHANGED <<fnvars, fs, task, platform_list, pidx, tool_list, tidx>>

\* CacheDirs without the test that post_image_build.sh exists
CacheDirs_always_post ==
    /\ pc = "cache dirs"
    /\ \E ok \in BOOLEAN :
          /\ log' = Append(log, Event("cache dirs", <<>>, <<>>, MountsOfCacheDirs, ok))
          /\ IF ~ok THEN Raise ELSE pc' = "post image build"
    /\ UNCHANGED <<fnvars, fs, images, task, platform_list, pidx, tool_list, tidx>>

\* build_docker_image_for_platform, lines 305-312: mkdir of the cache
\* directories in a container of the new image
CacheDirs ==
    /\ pc = "cache dirs"
    /\ \E ok \in BOOLEAN :
          /\ log' = Append(log, Event("cache dirs", <<>>, <<>>, MountsOfCacheDirs, ok))
          /\ IF ~ok THEN Raise
             ELSE IF fs.post_image_build[platform] THEN pc' = "post image build"
             ELSE pc' = "tool"
    /\ UNCHANGED <<fnvars, fs, images, task, platform_list, pidx, tool_list, tidx>>

\* build_docker_image_for_platform, lines 314-325: post_image_build.sh
PostImageBuild ==
    /\ pc = "post image build"
    /\ \E ok \in BOOLEAN :
          /\ log' = Append(log, Event("post image build", <<>>, <<>>,
                                      MountsOfPostImageBuild, ok))
          /\ IF ok THEN pc' = "tool" ELSE Raise
    /\ UNCHANGED <<fnvars, fs, images, task, platform_list, pidx, tool_list, tidx>>

\* ToolStep going on after a failed tool script as after a successful one
ToolStep_warn ==
    /\ pc = "tool"
    /\ IF tidx > Len(tool_list)
       THEN /\ pidx' = pidx + 1
            /\ pc' = "platform"
            /\ UNCHANGED <<tidx, log>>
       ELSE LET found == get_script_path_for_tool(platform_dir,
                                                  script_prefix_of(task.name), tool)
            IN IF found.none
               THEN /\ log' = Append(log, Event("script not found", tool, <<>>, {}, FALSE))
                    /\ tidx' = tidx + 1
                    /\ UNCHANGED <<pc, pidx>>
               ELSE \E ok \in (IF images[image_name].none THEN {FALSE} ELSE BOOLEAN) :
                       /\ log' = Append(log, Event("tool", tool, found.v,
                                                   IF task.name = "build" THEN MountsOfBuild
                                                   ELSE MountsOfTest, ok))
                       /\ IF task.name = "build"
                          THEN pc' = "collect" /\ UNCHANGED <<tidx, pidx>>
                          ELSE tidx' = tidx + 1 /\ UNCHANGED <<pc, pidx>>
    /\ UNCHANGED <<fnvars, fs, images, task, platform_list, tool_list>>

\* build, lines 438-466 (test, 541-567): the head of the tool loop, the
\* script of the tool and its container, which cannot start without the image
ToolStep ==
    /\ pc = "tool"
    /\ IF tidx > Len(tool_list)
       THEN /\ pidx' = pidx + 1
            /\ pc' = "platform"
            /\ UNCHANGED <<tidx, log>>
       ELSE LET found == get_script_path_for_tool(platform_dir,
                                                  script_prefix_of(task.name), tool)
            IN IF found.none
               THEN /\ log' = Append(log, Event("script not found", tool, <<>>, {}, FALSE))
                    /\ tidx' = tidx + 1
                    /\ UNCHANGED <<pc, pidx>>
               ELSE \E ok \in (IF images[image_name].none THEN {FALSE} ELSE BOOLEAN) :
                       /\ log' = Append(log, Event("tool", tool, found.v,
                                                   IF task.name = "build" THEN MountsOfBuild
                                                   ELSE MountsOfTest, ok))
                       /\ IF ~ok THEN Raise /\ UNCHANGED <<tidx, pidx>>
                          ELSE IF task.name = "build"
                          THEN pc' = "collect" /\ UNCHANGED <<tidx, pidx>>
                          ELSE tidx' = tidx + 1 /\ UNCHANGED <<pc, pidx>>
    /\ UNCHANGED <<fnvars, fs, images, task, platform_list, tool_list>>

\* build, lines 468-482: collect_dependencies.sh
CollectDependencies ==
    /\ pc = "collect"
    /\ \E ok \in BOOLEAN :
          /\ log' = Append(log, Event("collect", tool, <<>>, MountsOfCollect, ok))
          /\ IF ok
             THEN tidx' = tidx + 1 /\ pc' = "tool"
             ELSE Raise /\ UNCHANGED tidx
    /\ UNCHANGED <<fnvars, fs, images, task, platform_list, pidx, tool_list>>

Next ==
    \/ SelectPlatforms
    \/ ValidateTools
    \/ ImageCheck
    \/ ImageBuild
    \/ CacheDirs
    \/ PostImageBuild
    \/ ToolStep
    \/ CollectDependencies

Spec == Init /\ [][Next]_vars

(***************************************************************************)
(* SpecDebug: one run of debug_build or debug_test.                        *)
(***************************************************************************)
\* a platform directory whose name is a number
TWO == <<"2">>
DebugPlatforms == {GLIBC227, EL7, TWO}
DebugRoots == {NoDir, Dir(<<GLIBC227, EL7>>), Dir(<<TWO, EL7>>)}
DebugRequests == {None, Some(EL7), Some(SUSE)}

\* what input() gives: the line typed, or the exception raised
Typed(text) == [raises |-> "none", text |-> text]
Interrupted(exception) == [raises |-> exception, text |-> <<>>]
Answers ==
    {Interrupted("KeyboardInterrupt"), Interrupted("EOFError")} \cup
    {Typed(text) : text \in {<<"0">>, <<"1">>, <<"2">>, <<"3">>, EL7, <<" ">> \o EL7,
                             GLIBC227, SUSE, <<>>}}

MountsOfDebugBuild ==
    {"build-cache:/cache", "tool_repos:/tool_repos", "deploy:/deploy",
     "platform_dir:/workspace"}
MountsOfDebugTest ==
    {"dist/latest:/dist", "tool_repos:/tool_repos", "deploy:/deploy",
     "platform_dir:/workspace"}

InitDebug ==
    /\ dir = NoDir /\ root = NoDir /\ docker = NoDocker /\ call = NoCall /\ ret = None
    /\ dist = NoDist
    /\ \E r \in DebugRoots, i \in RunImages :
          /\ fs = [root |-> r,
                   dockerfile |-> [p \in DebugPlatforms |-> i.dockerfile],
                   post_image_build |-> [p \in DebugPlatforms |-> i.post]]
          /\ \E name \in {"debug_build", "debug_test"} :
                /\ images = [n \in {image_name_of(image_prefix_of(name), p) :
                                       p \in DebugPlatforms} |-> i.image]
                /\ task \in [name : {name}, platform : DebugRequests,
                             force_image_rebuild : BOOLEAN, answer : Answers]
    /\ pc = "start"
    /\ platform_list = <<>>
    /\ pidx = 0
    /\ tool_list = <<>>
    /\ tidx = 0
    /\ log = <<>>

\* the platform of an answer or the message of the return
Chosen(name) == [platform |-> Some(name), message |-> ""]
Refused(message) == [platform |-> None, message |-> message]

\* prompt_platform accepting every index below len(available)
prompt_platform_no_lower_bound(answer, available) ==
    IF answer.raises # "none" THEN Refused("Cancelled")
    ELSE LET choice == strip(answer.text)
         IN IF IsDigits(choice)
            THEN LET idx == int(choice) - 1
                 IN IF idx < Len(available)
                    THEN Chosen(available[IF idx < 0 THEN Len(available) + idx + 1
                                          ELSE idx + 1])
                    ELSE Refused("Invalid selection")
            ELSE IF Contains(available, choice) THEN Chosen(choice)
            ELSE Refused("Invalid platform")

\* debug_build, lines 595-613 (debug_test, 688-706): the answer to the prompt
prompt_platform(answer, available) ==
    IF answer.raises # "none" THEN Refused("Cancelled")
    ELSE LET choice == strip(answer.text)
         IN IF IsDigits(choice)
            THEN LET idx == int(choice) - 1
                 IN IF 0 <= idx /\ idx < Len(available)
                    THEN Chosen(available[idx + 1])
                    ELSE Refused("Invalid selection")
            ELSE IF Contains(available, choice) THEN Chosen(choice)
            ELSE Refused("Invalid platform")

\* debug_build, lines 582-619 (debug_test, 675-712): the platform of the
\* session, from the argument or from the prompt, and its validation
DebugPrompt ==
    /\ pc = "start"
    /\ LET available == get_available_platforms(fs.root)
           chosen == IF falsy(task.platform)
                     THEN IF Len(available) = 0
                          THEN Refused("No platform directories found")
                          ELSE prompt_platform(task.answer, available)
                     ELSE Chosen(task.platform.v)
       IN IF chosen.platform.none
          THEN /\ log' = Append(log, Message(chosen.message))
               /\ pc' = "done"
               /\ UNCHANGED <<platform_list, pidx>>
          ELSE LET validated == validate_platforms(chosen.platform, fs.root)
               IN IF validated.none
                  THEN /\ log' = Append(log, Message(
                                     validate_platforms_error(chosen.platform,
                                                              fs.root).message))
                       /\ pc' = "done"
                       /\ UNCHANGED <<platform_list, pidx>>
                  ELSE /\ platform_list' = <<validated.v[1]>>
                       /\ pidx' = 1
                       /\ pc' = "image check"
                       /\ UNCHANGED log
    /\ UNCHANGED <<fnvars, fs, images, task, tool_list, tidx>>

\* debug_build, lines 634-660 (debug_test, 727-753): os.execvp of the
\* interactive "docker run", reached when build_docker_image_for_platform
\* has returned; the container starts only if the image exists
DebugExec ==
    /\ pc = "tool"
    /\ log' = Append(log, Event("exec docker run -it", <<>>, <<>>,
                                IF task.name = "debug_build" THEN MountsOfDebugBuild
                                ELSE MountsOfDebugTest,
                                ~images[image_name].none))
    /\ pc' = "exec"
    /\ UNCHANGED <<fnvars, fs, images, task, platform_list, pidx, tool_list, tidx>>

NextDebug ==
    \/ DebugPrompt
    \/ ImageCheck
    \/ ImageBuild
    \/ CacheDirs
    \/ PostImageBuild
    \/ DebugExec

SpecDebug == InitDebug /\ [][NextDebug]_vars

(***************************************************************************)
(* SpecClean: one run of clean_docker.                                     *)
(***************************************************************************)
CleanRequests ==
    {None, Some(<<>>), Some(GLIBC227), Some(EL7 \o <<",", " ">> \o GLIBC227)}

\* the images "docker rmi" may be asked for
CleanImages ==
    {image_name_of(prefix, p) : prefix \in {BUILDER, TESTER}, p \in {GLIBC227, EL7, <<>>}}

InitClean ==
    /\ dir = NoDir /\ root = NoDir /\ docker = NoDocker /\ call = NoCall /\ ret = None
    /\ dist = NoDist
    /\ \E r \in Roots, t \in Roots : fs = [root |-> r, test_root |-> t]
    /\ \E present \in SUBSET {image_name_of(prefix, GLIBC227) : prefix \in {BUILDER, TESTER}} :
          images = [n \in CleanImages |-> IF n \in present THEN Some(1) ELSE NoTime]
    /\ task \in [name : {"clean_docker"}, platform : CleanRequests]
    /\ pc = "start"
    /\ platform_list = <<>>
    /\ pidx = 0
    /\ tool_list = <<>>
    /\ tidx = 0
    /\ log = <<>>

\* clean_docker, lines 774-781: with no platform the names of all platforms
\* are joined into the variable platforms, which nothing reads, and
\* platform.split(",") is evaluated on the platform given: on None it raises
\* AttributeError
CleanStart ==
    /\ pc = "start"
    /\ IF task.platform.none
       THEN /\ Raise
            /\ UNCHANGED <<platform_list, pidx>>
       ELSE /\ platform_list' = split(task.platform.v)
            /\ pidx' = 1
            /\ pc' = "remove"
    /\ UNCHANGED <<fnvars, fs, images, task, tool_list, tidx, log>>

\* "docker rmi" under warn=True: it fails when there is no such image, and a
\* failure is not raised
RmiEvent(image, ok) == [kind |-> "docker rmi", platform |-> strip(platform), image |-> image, ok |-> ok]

\* clean_docker, lines 783-794: the two images of one platform
CleanRemove ==
    /\ pc = "remove"
    /\ IF pidx > Len(platform_list)
       THEN /\ pc' = "done"
            /\ UNCHANGED <<pidx, images, log>>
       ELSE LET builder_image == image_name_of(BUILDER, strip(platform))
                tester_image == image_name_of(TESTER, strip(platform))
            IN \E builder_ok \in (IF images[builder_image].none THEN {FALSE} ELSE BOOLEAN),
                  tester_ok \in (IF images[tester_image].none THEN {FALSE} ELSE BOOLEAN) :
                  /\ log' = log \o <<RmiEvent(builder_image, builder_ok),
                                      RmiEvent(tester_image, tester_ok)>>
                  /\ images' = [n \in DOMAIN images |->
                                   IF (n = builder_image /\ builder_ok)
                                         \/ (n = tester_image /\ tester_ok)
                                   THEN NoTime ELSE images[n]]
                  /\ pidx' = pidx + 1
                  /\ UNCHANGED pc
    /\ UNCHANGED <<fnvars, fs, task, platform_list, tool_list, tidx>>

NextClean ==
    \/ CleanStart
    \/ CleanRemove

SpecClean == InitClean /\ [][NextClean]_vars

(***************************************************************************)
(* SpecWrapper: one run of the script generate_wrapper_script returns, on  *)
(* a host and a distribution root.                                         *)
(***************************************************************************)
bin == <<"b", "i", "n">>
nvim == <<"n", "v", "i", "m">>
rg == <<"r", "g">>
README == <<"R", "E", "A", "D", "M", "E">>

\* generate_wrapper_script, line 33
needs_xdg(exe_name) == exe_name = nvim

\* an entry of "$DIST_ROOT"/*: a directory or a plain file; detect is the
\* detect_platform.sh of a directory: "none" when there is no such file,
\* else what sourcing it on this host gives
FileEntry(name) == [name |-> name, is_dir |-> FALSE, detect |-> "none"]
WrapperEntries ==
    [name : {GLIBC227, EL7, bin}, is_dir : {TRUE}, detect : {"none", "fails", "matches"}]
        \cup {FileEntry(README)}

\* the expansions of "$DIST_ROOT"/*, in the order of the glob
WrapperDists ==
    {[exists |-> TRUE, entries |-> q, wrappers |-> {}] :
        q \in {r \in SeqsOver(WrapperEntries, MaxEntries) :
                  NoRepeat([i \in 1..Len(r) |-> r[i].name])}}

InitWrapper ==
    /\ dir = NoDir /\ root = NoDir /\ docker = NoDocker /\ call = NoCall /\ ret = None
    /\ fs = [root |-> NoDir]
    /\ images = <<>>
    /\ platform_list = <<>>
    /\ tool_list = <<>>
    /\ tidx = 0
    /\ log = <<>>
    /\ \E d \in WrapperDists, exe_name \in {nvim, rg} :
          /\ dist = [d EXCEPT !.wrappers = {exe_name}]
          /\ task = [name |-> "wrapper", exe_name |-> exe_name]
    /\ pidx = 1
    /\ pc = "detection loop"

\* what the script does or prints about one entry
WrapperEvent(kind, entry, ok) == [kind |-> kind, platform |-> entry.name, ok |-> ok]

\* is_candidate without the test for the bin directory
is_candidate_with_bin(platform_entry) ==
    platform_entry.is_dir /\ platform_entry.detect # "none"

\* the wrapper script, lines 62-68: the entries whose detect_platform.sh is
\* sourced
is_candidate(platform_entry) ==
    /\ platform_entry.is_dir /\ platform_entry.detect # "none"
    /\ platform_entry.name # bin

\* the wrapper script, lines 61-79: one turn of the detection loop
WrapperVisit ==
    /\ pc = "detection loop"
    /\ pidx <= Len(dist.entries)
    /\ LET platform_entry == dist.entries[pidx]
       IN IF ~is_candidate(platform_entry)
          THEN /\ pidx' = pidx + 1
               /\ UNCHANGED <<pc, log>>
          ELSE LET sourced == Append(log, WrapperEvent("source detect_platform.sh",
                                                       platform_entry,
                                                       platform_entry.detect = "matches"))
               IN IF platform_entry.detect # "matches"
                  THEN /\ log' = sourced
                       /\ pidx' = pidx + 1
                       /\ UNCHANGED pc
                  ELSE \E ok \in BOOLEAN :
                          /\ log' = (IF needs_xdg(task.exe_name)
                                     THEN Append(sourced, WrapperEvent("mkdir -p nvim",
                                                                       platform_entry, TRUE))
                                     ELSE sourced)
                                        \o <<WrapperEvent("exec", platform_entry, ok)>>
                          /\ pc' = IF ok THEN "exec" ELSE "exec failed"
                          /\ UNCHANGED pidx
    /\ UNCHANGED <<dir, root, docker, call, ret, dist, fs, images, task, platform_list,
                   tool_list, tidx>>

\* the names the script lists when no platform matched, lines 84-86
available_names(entries) ==
    LET listed == SelectSeq(entries, LAMBDA e : e.is_dir /\ e.name # bin)
    IN [i \in 1..Len(listed) |-> listed[i].name]

\* the wrapper script, lines 81-87: no platform matched
WrapperNoMatch ==
    /\ pc = "detection loop"
    /\ pidx > Len(dist.entries)
    /\ log' = Append(log, [kind |-> "No compatible platform found",
                           platform |-> <<>>, ok |-> FALSE,
                           available |-> available_names(dist.entries)])
    /\ pc' = "exit 1"
    /\ UNCHANGED <<dir, root, docker, call, ret, dist, fs, images, task, platform_list,
                   pidx, tool_list, tidx>>

NextWrapper ==
    \/ WrapperVisit
    \/ WrapperNoMatch

SpecWrapper == InitWrapper /\ [][NextWrapper]_vars

(***************************************************************************)
(* SpecDist: one run of create_dist.                                       *)
(***************************************************************************)
\* pyproject.toml: absent, without project.version, or with a version
Pyprojects == {"absent", "no version", "version"}

\* deploy/: absent, or its entries in iterdir() order; an entry is a platform
\* directory or a plain file
DeployEntries == [name : {GLIBC227, EL7}, is_dir : {TRUE}] \cup {[name |-> README, is_dir |-> FALSE]}
Deploys ==
    {[exists |-> FALSE, entries |-> <<>>]} \cup
    {[exists |-> TRUE, entries |-> q] :
        q \in {r \in SeqsOver(DeployEntries, MaxPlatforms) :
                  NoRepeat([i \in 1..Len(r) |-> r[i].name])}}

\* a Dockerfile of build/: absent, or what the search for ENV PLATFORM= finds
\* in it: group(1) of the match, or None when nothing matches
NoDockerfile == [exists |-> FALSE, env_platform |-> None]
Dockerfile(env_platform) == [exists |-> TRUE, env_platform |-> env_platform]

\* build/: absent, or its entries in iterdir() order; detect tells whether
\* the directory holds a detect_platform.sh
BuildEntries ==
    [name : {GLIBC227, EL7}, is_dir : {TRUE},
     dockerfile : {NoDockerfile, Dockerfile(None), Dockerfile(Some(GLIBC227)),
                   Dockerfile(Some(EL7))},
     detect : BOOLEAN]
        \cup {[name |-> README, is_dir |-> FALSE, dockerfile |-> NoDockerfile,
               detect |-> FALSE]}
Builds ==
    {[exists |-> FALSE, entries |-> <<>>]} \cup
    {[exists |-> TRUE, entries |-> q] :
        q \in {r \in SeqsOver(BuildEntries, MaxPlatforms) :
                  NoRepeat([i \in 1..Len(r) |-> r[i].name])}}

\* executables.yaml: absent (None), or what yaml.safe_load returns, with the
\* paths of the file reduced to the names
Executables == {None, Some(<<>>), Some(<<nvim>>), Some(<<nvim, rg>>)}

InitDist ==
    /\ dir = NoDir /\ root = NoDir /\ docker = NoDocker /\ call = NoCall /\ ret = None
    /\ dist = NoDist
    /\ images = <<>>
    /\ platform_list = <<>>
    /\ tool_list = <<>>
    /\ tidx = 0
    /\ log = <<>>
    /\ fs \in [pyproject : Pyprojects, deploy : Deploys, build : Builds,
                executables : Executables]
    /\ task = [name |-> "create_dist"]
    /\ pidx = 0
    /\ pc = "start"

\* a platform directory of the distribution tree
DistEntry(name, detect) == [name |-> name, is_dir |-> TRUE, detect |-> detect]

\* create_dist, lines 841-869: the version, the two mkdir and the test for
\* deploy/
DistStart ==
    /\ pc = "start"
    /\ IF fs.pyproject = "absent"
       THEN /\ log' = Append(log, Message("pyproject.toml not found"))
            /\ pc' = "aborted"
            /\ UNCHANGED <<dist, pidx>>
       ELSE IF fs.pyproject = "no version"
       THEN /\ log' = Append(log, Message("Could not find version in pyproject.toml"))
            /\ pc' = "aborted"
            /\ UNCHANGED <<dist, pidx>>
       ELSE /\ dist' = [exists |-> TRUE, entries |-> <<DistEntry(bin, "none")>>,
                        wrappers |-> {}]
            /\ IF ~fs.deploy.exists
               THEN /\ log' = Append(log, Message("deploy directory not found"))
                    /\ pc' = "aborted"
                    /\ UNCHANGED pidx
               ELSE /\ pidx' = 1
                    /\ pc' = "copy"
                    /\ UNCHANGED log
    /\ UNCHANGED <<dir, root, docker, call, ret, fs, images, task, platform_list,
                   tool_list, tidx>>

\* create_dist, lines 884-903: whether a build configuration declares the
\* platform and holds a detection script
detect_found(build, platform_name) ==
    \E i \in 1..Len(build.entries) :
        LET build_platform == build.entries[i]
        IN /\ build_platform.is_dir
           /\ build_platform.dockerfile.exists
           /\ build_platform.dockerfile.env_platform = Some(platform_name)
           /\ build_platform.detect

\* shutil.copytree with dirs_exist_ok: the entry is added or replaced
copytree(entries, entry) ==
    IF \E i \in 1..Len(entries) : entries[i].name = entry.name
    THEN [i \in 1..Len(entries) |->
             IF entries[i].name = entry.name THEN entry ELSE entries[i]]
    ELSE Append(entries, entry)

\* create_dist, lines 872-912: one entry of deploy/
DistCopyPlatform ==
    /\ pc = "copy"
    /\ pidx <= Len(fs.deploy.entries)
    /\ LET deployed == fs.deploy.entries[pidx]
       IN IF ~deployed.is_dir
          THEN /\ pidx' = pidx + 1
               /\ UNCHANGED <<dist, log, pc>>
          ELSE IF ~fs.build.exists
          THEN /\ dist' = [dist EXCEPT
                              !.entries = copytree(@, DistEntry(deployed.name, "none"))]
               /\ Raise
               /\ UNCHANGED <<log, pidx>>
          ELSE LET found == detect_found(fs.build, deployed.name)
               IN /\ dist' = [dist EXCEPT
                                 !.entries = copytree(@, DistEntry(deployed.name,
                                                         IF found THEN "present"
                                                         ELSE "none"))]
                  /\ log' = IF found THEN log
                            ELSE Append(log, [Message("Could not find detect_platform.sh")
                                                 EXCEPT !.platform = deployed.name])
                  /\ pidx' = pidx + 1
                  /\ UNCHANGED pc
    /\ UNCHANGED <<dir, root, docker, call, ret, fs, images, task, platform_list,
                   tool_list, tidx>>

\* create_dist, line 912: the platform directories copied
platform_count == Len(SelectSeq(fs.deploy.entries, LAMBDA e : e.is_dir))

\* create_dist, lines 914-952: the test of platform_count, executables.yaml
\* and the wrapper scripts
DistWrappers ==
    /\ pc = "copy"
    /\ pidx > Len(fs.deploy.entries)
    /\ IF platform_count = 0
       THEN /\ log' = Append(log, Message("No platform directories found"))
            /\ pc' = "aborted"
            /\ UNCHANGED dist
       ELSE IF fs.executables.none
       THEN /\ log' = Append(log, Message("executables.yaml not found"))
            /\ pc' = "aborted"
            /\ UNCHANGED dist
       ELSE IF Len(fs.executables.v) = 0
       THEN /\ log' = Append(log, Message("No executables defined in executables.yaml"))
            /\ pc' = "aborted"
            /\ UNCHANGED dist
       ELSE /\ dist' = [dist EXCEPT !.wrappers = SeqSet(fs.executables.v)]
            /\ log' = Append(log, [Message("Distribution created successfully")
                                       EXCEPT !.ok = TRUE])
            /\ pc' = "done"
    /\ UNCHANGED <<dir, root, docker, call, ret, fs, images, task, platform_list, pidx,
                   tool_list, tidx>>

NextDist ==
    \/ DistStart
    \/ DistCopyPlatform
    \/ DistWrappers

SpecDist == InitDist /\ [][NextDist]_vars

(***************************************************************************)
(* Properties of the functions, checked under SpecFn.                      *)
(***************************************************************************)

Min(S) == CHOOSE x \in S : \A y \in S : x <= y

\* the entries of dir that are scripts of the call's prefix, by position
Scripts == {i \in 1..Len(dir.entries) :
               tool_pattern_match(call.script_prefix, dir.entries[i]).matched}
ToolAt(i) == tool_pattern_match(call.script_prefix, dir.entries[i]).tool
OrderAt(i) == tool_pattern_match(call.script_prefix, dir.entries[i]).order
ScriptsOf(name) == {i \in Scripts : ToolAt(i) = name}
MinOrder(name) == Min({OrderAt(i) : i \in ScriptsOf(name)})
\* position of the first enumerated script of the tool, whatever its order
FirstSeen(name) == Min(ScriptsOf(name))
\* position of the first enumerated script that carries the tool's minimum order
FirstLowest(name) == Min({i \in ScriptsOf(name) : OrderAt(i) = MinOrder(name)})

IsShouldRebuild == call.op = "should_rebuild_docker_image"
ImageMissing == docker.result = InspectNotFound
DescriptorNewer ==
    /\ ~docker.dockerfile.none
    /\ docker.result.ok
    /\ docker.dockerfile.v > docker.result.created

\* C5 as stated: needsRebuild is true whenever force is set, true whenever the
\* image does not exist, and otherwise true exactly when the descriptor's
\* mtime is strictly greater than the image's creation time.
C5_Original ==
    IsShouldRebuild =>
        /\ call.force => ret = "True"
        /\ ImageMissing => ret = "True"
        /\ (~call.force /\ docker.result.ok) => (ret = "True" <=> DescriptorNewer)

\* C5 amended: needsRebuild is true whenever force is set; without force it is
\* false whenever the descriptor is absent (even if the image does not exist),
\* true when the descriptor exists and the image does not, and with both
\* present true exactly when descriptor mtime > image creation time, so that
\* equal timestamps give false.
C5_NeedsRebuild ==
    IsShouldRebuild =>
        /\ call.force => ret = "True"
        /\ (~call.force /\ docker.dockerfile.none) => ret = "False"
        /\ (~call.force /\ ~docker.dockerfile.none /\ ImageMissing) => ret = "True"
        /\ (~call.force /\ ~docker.dockerfile.none /\ docker.result.ok) =>
              /\ ret \in {"True", "False"}
              /\ ret = "True" <=> docker.dockerfile.v > docker.result.created

C5_Witness ==
    /\ IsShouldRebuild
    /\ ~call.force
    /\ ~docker.dockerfile.none
    /\ docker.result.ok
    /\ docker.dockerfile.v = docker.result.created
    /\ ret = "False"

\* C6: when the image query fails for a reason other than "image not found"
\* (the daemon is unreachable), needsRebuild raises a fatal error; it never
\* answers true as if the image were missing.
C6_DaemonErrorIsFatal ==
    (/\ IsShouldRebuild
     /\ ~call.force
     /\ ~docker.dockerfile.none
     /\ docker.result = InspectDaemonDown) => ret = "raise"

IsGetTools == call.op = "get_tools_for_platform"

OnePerTool ==
    /\ Len(ret) = Cardinality({ToolAt(i) : i \in Scripts})
    /\ SeqSet(ret) = {ToolAt(i) : i \in Scripts}

AscendingMinOrder ==
    \A i, j \in 1..Len(ret) : i < j => MinOrder(ret[i]) <= MinOrder(ret[j])

\* C7 as stated: one entry per distinct tool name, ascending minimum order,
\* and tools with equal minimum order in the enumeration order of the scripts
\* that carry that order.
C7_Original ==
    IsGetTools =>
        /\ OnePerTool
        /\ AscendingMinOrder
        /\ \A i, j \in 1..Len(ret) :
              (i < j /\ MinOrder(ret[i]) = MinOrder(ret[j]))
                  => FirstLowest(ret[i]) < FirstLowest(ret[j])

\* C7 amended: one entry per distinct tool name, ascending minimum order, and
\* tools with equal minimum order in the order in which the first script of
\* each tool (of any order number) is enumerated.
C7_DiscoverTools ==
    IsGetTools =>
        /\ OnePerTool
        /\ AscendingMinOrder
        /\ \A i, j \in 1..Len(ret) :
              (i < j /\ MinOrder(ret[i]) = MinOrder(ret[j]))
                  => FirstSeen(ret[i]) < FirstSeen(ret[j])

C7_Witness ==
    /\ IsGetTools
    /\ call.script_prefix = BUILD_
    /\ dir = Dir(<<script(BUILD_, <<"a">>, <<"2">>),
                   script(BUILD_, <<"b">>, <<"1">>),
                   script(BUILD_, <<"a">>, <<"1">>)>>)
    /\ ret = << <<"a">>, <<"b">> >>

IsGetScript == call.op = "get_script_path_for_tool"

\* C8: scriptFor returns a filename of the directory whose tool name is the
\* requested name and whose order number is the lowest among the scripts of
\* that name; it returns None when no script has that name or the platform
\* directory is absent.
C8_ScriptFor ==
    IsGetScript =>
        LET mine == ScriptsOf(call.tool_name)
        IN IF ~dir.exists \/ mine = {}
           THEN ret = None
           ELSE /\ ~ret.none
                /\ \E i \in mine :
                      /\ dir.entries[i] = ret.v
                      /\ \A j \in mine : OrderAt(i) <= OrderAt(j)

C8_Witness ==
    /\ IsGetScript
    /\ call.tool_name = <<"a">>
    /\ dir = Dir(<<script(BUILD_, <<"a">>, <<"2">>),
                   script(BUILD_, <<"a", ".", "1">>, <<"2">>),
                   script(BUILD_, <<"a">>, <<"1">>)>>)
    /\ ret = Some(script(BUILD_, <<"a">>, <<"1">>))

IsValidateTools == call.op = "validate_tools"
Discovered == get_tools_for_platform(dir, call.script_prefix)
RequestedTools == split_strip(call.tools_str.v)
UnknownTools == SeqSet(RequestedTools) \ SeqSet(Discovered)

\* C9 as stated: an empty or unset request returns the discovery result; a
\* non-empty request with any name outside the discovery result is a
\* validation error naming the invalid and the available names.
C9_Original ==
    IsValidateTools =>
        /\ falsy(call.tools_str) => ret = Some(Discovered)
        /\ (~falsy(call.tools_str) /\ UnknownTools # {}) =>
              /\ ret = None
              /\ SeqSet(call.printed.invalid) = UnknownTools
              /\ call.printed.available = Discovered

\* C9 amended: an empty or unset request returns the discovery result in
\* discovery order; a non-empty request, when the discovery result is not
\* empty, is a validation error naming the invalid and the available names if
\* any requested name is outside the discovery result, and otherwise the
\* requested names unchanged; when the discovery result is empty the result is
\* the empty list (a warning, not a validation error) whatever was requested.
C9_ValidateTools ==
    IsValidateTools =>
        /\ falsy(call.tools_str) => ret = Some(Discovered)
        /\ (~falsy(call.tools_str) /\ Discovered = <<>>) => ret = Some(<<>>)
        /\ (~falsy(call.tools_str) /\ Discovered # <<>> /\ UnknownTools # {}) =>
              /\ ret = None
              /\ SeqSet(call.printed.invalid) = UnknownTools
              /\ call.printed.available = Discovered
        /\ (~falsy(call.tools_str) /\ Discovered # <<>> /\ UnknownTools = {}) =>
              ret = Some(RequestedTools)

C9_Witness ==
    /\ IsValidateTools
    /\ call.script_prefix = BUILD_
    /\ call.tools_str = Some(<<"a", ",", "z">>)
    /\ dir = Dir(<<script(BUILD_, <<"a">>, <<"1">>), script(BUILD_, <<"c">>, <<"1", "0">>)>>)
    /\ ret = None
    /\ call.printed = [invalid |-> << <<"z">> >>, available |-> << <<"a">>, <<"c">> >>]

Catalog == IF root.exists THEN root.entries ELSE <<>>
RequestedPlatforms == split_strip(call.platforms_str.v)

\* a non-empty request: the requested platforms in request order when all are
\* in the catalog, else an error; an error naming the root on an empty catalog
StrictMembership ==
    IF Catalog = <<>>
    THEN /\ ret = None
         /\ call.printed.message = "No platform directories found in"
         /\ call.printed.base_dir = root
    ELSE IF SeqSet(RequestedPlatforms) \subseteq SeqSet(Catalog)
    THEN ret = Some(RequestedPlatforms)
    ELSE /\ ret = None
         /\ call.printed.message = "Invalid platforms"
         /\ SeqSet(call.printed.invalid) = SeqSet(RequestedPlatforms) \ SeqSet(Catalog)
         /\ call.printed.available = Catalog

IndexOf(seq, x) == Min({i \in 1..Len(seq) : seq[i] = x})

\* what discoverTools produces for a platform of the run
DiscoveryOrder(p) == get_tools_for_platform(fs.dirs[p], script_prefix_of(task.name))

\* C1: for every processed platform the tool scripts are invoked in the order
\* discoverTools produces for that platform, whether the tool list is the
\* default or an explicit request.
C1_ToolsInDiscoveryOrder ==
    \A i, j \in 1..Len(log) :
        (/\ i < j
         /\ log[i].kind = "tool" /\ log[j].kind = "tool"
         /\ log[i].platform = log[j].platform)
            => IndexOf(DiscoveryOrder(log[i].platform), log[i].tool)
                   < IndexOf(DiscoveryOrder(log[j].platform), log[j].tool)

\* C2: a tool script container that exits non-zero does not end the run: the
\* loop goes on to the next tool and the remaining platforms.
C2_ToolFailureContinues ==
    \A i \in 1..Len(log) :
        (log[i].kind = "tool" /\ ~log[i].ok) => pc # "raised"

\* C3: when the image build of a platform fails no tool script is run for
\* that platform, and the run is not ended while platforms remain.
C3_ImageBuildFailureContinues ==
    \A i \in 1..Len(log) :
        (log[i].kind = "docker build" /\ ~log[i].ok) =>
            /\ \A j \in (i + 1)..Len(log) :
                  ~(log[j].kind = "tool" /\ log[j].platform = log[i].platform)
            /\ ~(pc = "raised" /\ pidx < Len(platform_list))

\* C4: no tool script container and no dependency collection container runs
\* for a platform whose Dockerfile is absent.
C4_NoContainerWithoutDescriptor ==
    \A i \in 1..Len(log) :
        (log[i].kind \in {"tool", "collect"} /\ log[i].ok)
            => ~fs.dockerfile[log[i].platform].none

\* the events of docker commands and of containers
ImageKinds == {"image check", "docker build"}
ContainerKinds == {"cache dirs", "post image build", "tool", "collect"}

\* the events of platform p, in order
EventsOf(p) == SelectSeq(log, LAMBDA e : e.platform = p)
KindsOf(p) == {e.kind : e \in SeqSet(EventsOf(p))}

\* the platforms whose turn in the platform loop has come
Reached == {platform_list[k] : k \in {k \in 1..Len(platform_list) :
                                         k < pidx \/ (k = pidx /\ pc # "platform")}}

\* platform p lacks a tool the run asks for
LacksRequested(p) ==
    /\ ~falsy(task.tools)
    /\ ~(SeqSet(split_strip(task.tools.v)) \subseteq SeqSet(DiscoveryOrder(p)))

\* the platform loop is left only at its end or by an exception
LoopRunsOn == pc = "done" /\ platform_list # <<>> => pidx > Len(platform_list)

\* C11 as stated: a platform that lacks a requested tool gets a validation
\* error, no image check or build and no container, and the platform loop
\* goes on.
C11_Original ==
    /\ \A p \in Reached :
          LacksRequested(p) =>
              /\ EventsOf(p) = <<[Message("invalid tools") EXCEPT !.platform = p]>>
    /\ LoopRunsOn

\* C11 amended: a platform that lacks a requested tool gets no image check,
\* no image build and no container, and the loop goes on to the platforms
\* after it; what it gets is the validation error of validate_tools when the
\* platform has tool scripts, and the "no scripts" skip when it has none.
C11_InvalidToolsSkipPlatform ==
    /\ \A p \in Reached :
          LacksRequested(p) =>
              /\ EventsOf(p) = <<[Message(IF DiscoveryOrder(p) = <<>> THEN "no scripts"
                                           ELSE "invalid tools") EXCEPT !.platform = p]>>
              /\ KindsOf(p) \cap (ImageKinds \cup ContainerKinds) = {}
    /\ LoopRunsOn

\* the first platform lacks the requested tool, the second one is then reached
C11_Witness ==
    /\ Len(platform_list) = 2 /\ pidx = 2 /\ pc = "platform"
    /\ LacksRequested(platform_list[1])
    /\ DiscoveryOrder(platform_list[1]) # <<>>
    /\ Len(log) = 1 /\ log[1].kind = "invalid tools"

\* the platform names of the request of the run
RequestedOfRun == IF falsy(task.platform) THEN <<>> ELSE split_strip(task.platform.v)
CatalogOfRun == get_available_platforms(fs.root)

\* the request names a platform of the catalog and one that is not
MixedRequest ==
    /\ SeqSet(RequestedOfRun) \cap SeqSet(CatalogOfRun) # {}
    /\ SeqSet(RequestedOfRun) \ SeqSet(CatalogOfRun) # {}

\* C12 as stated: when the request names an invalid platform together with
\* valid ones, the valid platforms are still processed.
C12_Original ==
    (MixedRequest /\ pc # "start") =>
        SeqSet(RequestedOfRun) \cap SeqSet(CatalogOfRun) \subseteq SeqSet(platform_list)

\* C12 amended: when the request names an invalid platform together with
\* valid ones, the request is rejected as a whole: the task prints the
\* "Invalid platforms" error and returns, and no platform of the invocation,
\* valid or not, is processed.
C12_InvalidPlatformRejectsRequest ==
    (MixedRequest /\ pc # "start") =>
        /\ pc = "done"
        /\ platform_list = <<>>
        /\ log = <<Message("Invalid platforms")>>

C12_Witness ==
    /\ task.platform = Some(SUSE \o <<",">> \o EL7)
    /\ EL7 \in SeqSet(CatalogOfRun)
    /\ pc = "done"
    /\ log = <<Message("Invalid platforms")>>

\* the events of the platform loop
LoopEvents == {i \in 1..Len(log) : log[i].platform # <<>>}

\* the validated selection: the request left to right, or else the catalog
ValidatedSelection ==
    IF falsy(task.platform) THEN CatalogOfRun
    ELSE IF CatalogOfRun # <<>> /\ SeqSet(RequestedOfRun) \subseteq SeqSet(CatalogOfRun)
    THEN RequestedOfRun
    ELSE <<>>

\* C13: image checks, image builds and container invocations happen only for
\* the platforms of the validated selection, one platform at a time in the
\* left-to-right order of the request (or in catalog order when there is no
\* request), all events of a platform coming before those of the next one;
\* with the catalog {GLIBC227, EL7} and the request GLIBC227 nothing is run
\* for EL7.
C13_PlatformsInRequestOrder ==
    /\ pc # "start" => platform_list = ValidatedSelection
    /\ \A i \in LoopEvents : log[i].platform \in SeqSet(ValidatedSelection)
    /\ \A i, j \in LoopEvents :
          i < j => IndexOf(ValidatedSelection, log[i].platform)
                      <= IndexOf(ValidatedSelection, log[j].platform)
    /\ (task.platform = Some(GLIBC227) /\ SeqSet(CatalogOfRun) = {GLIBC227, EL7})
          => \A i \in 1..Len(log) : log[i].platform # EL7

\* the request "EL7, GLIBC227" against the catalog GLIBC227, EL7: a container
\* of EL7 has run and the run has moved on to an image check of GLIBC227
C13_Witness ==
    /\ task.platform = Some(EL7 \o <<",", " ">> \o GLIBC227)
    /\ CatalogOfRun = <<GLIBC227, EL7>>
    /\ \E i, j \in LoopEvents :
          /\ i < j
          /\ log[i].platform = EL7 /\ log[i].kind = "tool" /\ log[i].ok
          /\ log[j].platform = GLIBC227 /\ log[j].kind = "image check"

\* C14: in the build role the collection step of a tool runs immediately
\* after the build step of that tool and only if that step succeeded: every
\* collection event directly follows the successful build event of the same
\* tool and platform, every successful build event is directly followed by
\* its collection (or the run stands at it), and the test role never runs a
\* collection step.
C14_CollectFollowsBuild ==
    /\ \A i \in 1..Len(log) :
          log[i].kind = "collect" =>
              /\ task.name = "build"
              /\ i > 1
              /\ log[i - 1].kind = "tool" /\ log[i - 1].ok
              /\ log[i - 1].tool = log[i].tool
              /\ log[i - 1].platform = log[i].platform
    /\ \A i \in 1..Len(log) :
          (log[i].kind = "tool" /\ log[i].ok /\ task.name = "build") =>
              IF i = Len(log) THEN pc = "collect"
              ELSE log[i + 1].kind = "collect"
    /\ \A i \in 1..Len(log) :
          (log[i].kind \in {"script not found"} \/ (log[i].kind = "tool" /\ ~log[i].ok)) =>
              ~(i < Len(log) /\ log[i + 1].kind = "collect")
    /\ task.name = "test" => pc # "collect"

\* two tools of one platform, each collected before the next is built
C14_Witness ==
    /\ task.name = "build"
    /\ \E i \in 1..Len(log) :
          /\ i + 3 <= Len(log)
          /\ log[i].kind = "tool" /\ log[i].ok
          /\ log[i + 1].kind = "collect" /\ log[i + 1].ok
          /\ log[i + 2].kind = "tool" /\ log[i + 2].tool # log[i].tool
          /\ log[i + 2].platform = log[i].platform
          /\ log[i + 3].kind = "collect"

(***************************************************************************)
(* Properties of the dispatch script, checked under SpecWrapper.           *)
(***************************************************************************)
\* the positions of the platform directories that carry a detection script
DispatchCandidates ==
    {i \in 1..Len(dist.entries) :
        /\ dist.entries[i].is_dir
        /\ dist.entries[i].name # bin
        /\ dist.entries[i].detect \in {"fails", "matches"}}
Matching == {i \in DispatchCandidates : dist.entries[i].detect = "matches"}

\* the positions the loop has dealt with
Visited == {i \in 1..Len(dist.entries) :
               i < pidx \/ (i = pidx /\ pc \in {"exec", "exec failed"})}

Sourced == SelectSeq(log, LAMBDA e : e.kind = "source detect_platform.sh")
Execs == SelectSeq(log, LAMBDA e : e.kind = "exec")
CandidatesVisited ==
    SelectSeq([i \in 1..Len(dist.entries) |-> i], LAMBDA i : i \in DispatchCandidates \cap Visited)

\* C15: the dispatch script visits the entries of the distribution root in
\* glob order, sources the detection script of the platform directories
\* only, never that of bin, and at the first one that exits zero calls exec
\* on that platform's copy of the executable, which ends the script; when no
\* detection script exits zero it prints the names of the available platform
\* directories and exits with status 1, having called exec on nothing.
C15_DispatchFirstMatch ==
    /\ Len(Sourced) = Len(CandidatesVisited)
    /\ \A k \in 1..Len(Sourced) :
          /\ Sourced[k].platform = dist.entries[CandidatesVisited[k]].name
          /\ Sourced[k].platform # bin
          /\ Sourced[k].ok = (CandidatesVisited[k] \in Matching)
    /\ pc \in {"exec", "exec failed"} =>
          /\ Matching # {} /\ pidx = Min(Matching)
          /\ Len(Execs) = 1
          /\ log[Len(log)] = [kind |-> "exec", platform |-> dist.entries[pidx].name,
                               ok |-> pc = "exec"]
    /\ pc = "detection loop" =>
          /\ Execs = <<>>
          /\ \A i \in Matching : i >= pidx
    /\ pc = "exit 1" =>
          /\ Matching = {}
          /\ Execs = <<>>
          /\ Visited = 1..Len(dist.entries)
          /\ log[Len(log)].kind = "No compatible platform found"
          /\ SeqSet(log[Len(log)].available)
                = {e.name : e \in {x \in SeqSet(dist.entries) : x.is_dir /\ x.name # bin}}

\* bin carries a detection script that would exit zero and comes first, the
\* detection script of EL7 exits non-zero, that of GLIBC227 exits zero: the
\* script has replaced itself with the executable of GLIBC227
C15_Witness ==
    /\ dist.entries = <<[name |-> bin, is_dir |-> TRUE, detect |-> "matches"],
                        [name |-> EL7, is_dir |-> TRUE, detect |-> "fails"],
                        [name |-> GLIBC227, is_dir |-> TRUE, detect |-> "matches"]>>
    /\ pc = "exec"
    /\ Sourced = <<[kind |-> "source detect_platform.sh", platform |-> EL7, ok |-> FALSE],
                   [kind |-> "source detect_platform.sh", platform |-> GLIBC227,
                    ok |-> TRUE]>>

(***************************************************************************)
(* Properties of create_dist, checked under SpecDist.                      *)
(***************************************************************************)
\* the three fatal cases: deploy/ absent, no platform directory in it,
\* executables.yaml absent or empty
DeployAbsent == ~fs.deploy.exists
NoPlatformCopied == fs.deploy.exists /\ platform_count = 0
NoExecutables == fs.executables.none \/ fs.executables.v = <<>>

\* C16, for a project whose pyproject.toml gives a version: create_dist ends
\* without a distribution only when deploy/ is absent, no platform directory
\* was copied, or executables.yaml is absent or empty; in every other
\* situation it completes and bin/ holds one dispatch script per declared
\* executable.
C16_FailsOnlyInThreeCases ==
    fs.pyproject = "version" =>
        /\ pc \in {"aborted", "raised"} =>
              DeployAbsent \/ NoPlatformCopied \/ NoExecutables
        /\ pc = "done" => dist.wrappers = SeqSet(fs.executables.v)

\* C17: create_dist that aborts because deploy/ is absent, no platform was
\* copied or executables.yaml is absent or empty has created or changed
\* nothing under dist/.
C17_AbortLeavesNoMutation ==
    pc = "aborted" => dist = NoDist

(***************************************************************************)
(* Properties of debug_build and debug_test, checked under SpecDebug.      *)
(***************************************************************************)
\* the session was started without a platform and the catalog has platforms
Prompted == falsy(task.platform) /\ CatalogOfRun # <<>> /\ pc # "start"

\* the answer, without the whitespace around it
AnswerGiven == strip(task.answer.text)
Cancelled == task.answer.raises # "none"
ValidNumber ==
    IsDigits(AnswerGiven) /\ 1 <= int(AnswerGiven) /\ int(AnswerGiven) <= Len(CatalogOfRun)
ExactName == AnswerGiven \in SeqSet(CatalogOfRun)

\* the session ended at the prompt: a message, and no image check, no image
\* build and no container
AbortedAtPrompt ==
    /\ pc = "done"
    /\ platform_list = <<>>
    /\ Len(log) = 1
    /\ log[1].kind \in {"Cancelled", "Invalid selection", "Invalid platform"}

\* C18 as stated: an interrupt or end of input, an out-of-range number or an
\* unknown name aborts with no side effects; a valid number selects the
\* platform of that number and an exact name selects the platform named.
C18_Original ==
    Prompted =>
        IF Cancelled \/ (~ValidNumber /\ ~ExactName)
        THEN AbortedAtPrompt
        ELSE /\ ValidNumber => platform_list = <<CatalogOfRun[int(AnswerGiven)]>>
             /\ ExactName => platform_list = <<AnswerGiven>>

\* C18 amended: an answer made of digits is always read as a number, also
\* when a platform bears that name; an interrupt or end of input, a number
\* out of range, or an answer that is neither a number nor the exact name of
\* a platform aborts with no image check, no image build and no container;
\* a number in range selects the platform of that number, and an exact name
\* that is not a number selects the platform named.
C18_PromptSelectsOrAborts ==
    Prompted =>
        IF Cancelled \/ (IsDigits(AnswerGiven) /\ ~ValidNumber)
              \/ (~IsDigits(AnswerGiven) /\ ~ExactName)
        THEN AbortedAtPrompt
        ELSE platform_list = <<IF IsDigits(AnswerGiven) THEN CatalogOfRun[int(AnswerGiven)]
                               ELSE AnswerGiven>>

\* the answer "0" to a prompt that lists two platforms
C18_Witness ==
    /\ Prompted
    /\ task.answer = Typed(<<"0">>)
    /\ Len(CatalogOfRun) = 2
    /\ pc = "done"
    /\ log = <<Message("Invalid selection")>>

(***************************************************************************)
(* Properties of clean_docker, checked under SpecClean.                    *)
(***************************************************************************)
\* the platforms under the build root or the test root
AllPlatforms ==
    SeqSet(get_available_platforms(fs.root)) \cup SeqSet(get_available_platforms(fs.test_root))

Removals == {log[i].image : i \in {j \in 1..Len(log) : log[j].kind = "docker rmi"}}

\* C19: clean_docker with the platform unset ends without an error, having
\* attempted to remove the builder image and the tester image of every
\* platform found under the build root or the test root.
C19_CleanAllPlatforms ==
    task.platform.none =>
        /\ pc # "raised"
        /\ pc = "done" =>
              \A p \in AllPlatforms :
                  {image_name_of(BUILDER, p), image_name_of(TESTER, p)} \subseteq Removals

(***************************************************************************)
(* The build cache volume, checked under Spec.                             *)
(***************************************************************************)
CacheVolume == "build-cache:/cache"
Containers == {i \in 1..Len(log) : log[i].kind \in ContainerKinds}

ValidatedTools(p) == validate_tools(task.tools, fs.dirs[p], script_prefix_of(task.name))
NoTools(p) == ValidatedTools(p).none \/ ValidatedTools(p).v = <<>>

\* the phase an event belongs to
Phase(kind) ==
    CASE kind \in {"invalid tools", "no scripts"} -> 1
      [] kind \in {"image check", "Dockerfile not found"} -> 2
      [] kind \in {"docker build", "cache dirs", "post image build"} -> 3
      [] OTHER -> 4

\* C21: per platform the run goes from validation to the image check, to the
\* image build when one is needed, and then to the tool loop: the events of
\* a platform never step back to an earlier phase, the image check is made
\* once and only for a platform whose validated tool list is not empty, and
\* a platform for which no tools are found or selected is skipped with its
\* one message and no image check, no image build and no container.
C21_PlatformPhases ==
    \A p \in Reached :
        LET events == EventsOf(p)
        IN /\ \A i, j \in 1..Len(events) :
                 i < j => Phase(events[i].kind) <= Phase(events[j].kind)
           /\ Cardinality({i \in 1..Len(events) : events[i].kind = "image check"}) <= 1
           /\ Cardinality({i \in 1..Len(events) : events[i].kind = "docker build"}) <= 1
           /\ IF NoTools(p)
              THEN /\ Len(events) = 1
                   /\ Phase(events[1].kind) = 1
                   /\ KindsOf(p) \cap (ImageKinds \cup ContainerKinds) = {}
              ELSE /\ events # <<>> => events[1].kind = "image check"
                   /\ (/\ pidx <= Len(platform_list)
                       /\ p = platform_list[pidx]
                       /\ pc \notin {"image check", "platform"})
                         => events # <<>>

\* the first platform has no script of the role and was skipped, the second
\* one went through image check, image build and a tool script
C21_Witness ==
    /\ Len(platform_list) = 2 /\ pidx = 2
    /\ falsy(task.tools)
    /\ NoTools(platform_list[1])
    /\ [k \in 1..Len(EventsOf(platform_list[1])) |-> EventsOf(platform_list[1])[k].kind]
          = <<"no scripts">>
    /\ \E i, j, k \in 1..Len(log) :
          /\ i < j /\ j < k
          /\ log[i].platform = platform_list[2] /\ log[i].kind = "image check"
          /\ log[j].platform = platform_list[2] /\ log[j].kind = "docker build" /\ log[j].ok
          /\ log[k].platform = platform_list[2] /\ log[k].kind = "tool" /\ log[k].ok

(***************************************************************************)
(* post_image_build.sh, checked under Spec.                                *)
(***************************************************************************)
\* the positions in the events of p of the events of one kind
Positions(p, kind) == {i \in 1..Len(EventsOf(p)) : EventsOf(p)[i].kind = kind}
Succeeded(p, kind) == \E i \in Positions(p, kind) : EventsOf(p)[i].ok

\* the run is no longer between the image build of p and its post_image_build
PastImageBuild(p) ==
    ~(pidx <= Len(platform_list) /\ p = platform_list[pidx]
        /\ pc \in {"cache dirs", "post image build"})

\* a post_image_build.sh event of p comes once, after the image build and
\* the cache directories of p, before the tool scripts of p, for a script
\* that exists and in a container of the image just built
PostImageBuildInPlace(p) ==
    LET events == EventsOf(p)
    IN \A i \in Positions(p, "post image build") :
          /\ Positions(p, "post image build") = {i}
          /\ fs.post_image_build[p]
          /\ i > 2
          /\ events[i - 1].kind = "cache dirs" /\ events[i - 1].ok
          /\ events[i - 2].kind = "docker build" /\ events[i - 2].ok
          /\ \A j \in 1..Len(events) :
                events[j].kind \in {"tool", "collect", "script not found"} => i < j
          /\ events[i].mounts = MountsOfPostImageBuild
          /\ images[image_name_of(image_prefix_of(task.name), p)] = Some(MaxTime)

RecordedOrder(name) ==
    LET map == tool_order_map(dir.entries, call.script_prefix)
        k == CHOOSE i \in 1..Len(map) : map[i].tool = name
    IN map[k].order

\* C23: for every content of a platform directory and every tool name that
\* get_tools_for_platform returns, get_script_path_for_tool with the same
\* directory and prefix returns a file name of the directory, never None,
\* whose order number is the one discovery recorded for the tool, which is
\* the minimum over the scripts of the tool.
C23_DiscoveryAndResolutionAgree ==
    IsGetTools =>
        \A k \in 1..Len(ret) :
            LET found == get_script_path_for_tool(dir, call.script_prefix, ret[k])
            IN /\ ~found.none
               /\ \E i \in ScriptsOf(ret[k]) : dir.entries[i] = found.v
               /\ script_pattern_match(call.script_prefix, ret[k], found.v).matched
               /\ script_pattern_match(call.script_prefix, ret[k], found.v).order
                     = RecordedOrder(ret[k])
               /\ RecordedOrder(ret[k]) = MinOrder(ret[k])

\* the tools "a" and "a.1" of one directory, "a" with two scripts: each is
\* resolved to its own script of lowest order
C23_Witness ==
    /\ IsGetTools
    /\ call.script_prefix = BUILD_
    /\ dir = Dir(<<script(BUILD_, <<"a">>, <<"2">>),
                   script(BUILD_, <<"a", ".", "1">>, <<"2">>),
                   script(BUILD_, <<"a">>, <<"1">>)>>)
    /\ ret = <<<<"a">>, <<"a", ".", "1">>>>
    /\ get_script_path_for_tool(dir, BUILD_, <<"a">>)
          = Some(script(BUILD_, <<"a">>, <<"1">>))
    /\ get_script_path_for_tool(dir, BUILD_, <<"a", ".", "1">>)
          = Some(script(BUILD_, <<"a", ".", "1">>, <<"2">>))

\* the consequence of C23 for a run of build or test, whose directories do
\* not change: the "script not found" branch of the tool loop is never taken
ScriptNotFoundNeverTaken ==
    \A i \in 1..Len(log) : log[i].kind # "script not found"

====
